---- MODULE Spec2Model ----
(***************************************************************************)
(* Model of the BRC-20 indexer core of ordinals-api.                       *)
(*                                                                         *)
(*   Spec   the ledger: Brc20PgStore (src/src/pg/brc20-pg-store.ts) driven *)
(*          by inscription genesis / transfer events grouped in blocks,    *)
(*          and by rollbacks of the tip block.                             *)
(*   QSpec  the ingestion coordinator: buildOrdhookIndexer                 *)
(*          (src/src/ordhook/index.ts), its PQueue and its two callbacks.  *)
(*   QFair  QSpec with weak fairness on the end of the running job.        *)
(*                                                                         *)
(* Amounts are exact decimals counted in tenths: 10 is "1", 15 is "1.5".   *)
(* An amount as written in a payload is [v |-> tenths, f |-> digits after  *)
(* the point in the payload string].                                       *)
(***************************************************************************)
EXTENDS Integers, Sequences, FiniteSets

VARIABLES
    \* ---- ledger (Spec) ----
    height,        \* height of the tip block, 0 when no block is applied
    inscriptions,  \* inscriptions table: inscription id -> parsed payload
    locations,     \* locations table, in insertion order
    deploys,       \* brc20_deploys
    mints,         \* brc20_mints
    transfers,     \* brc20_transfers
    balances,      \* brc20_balances (append-only deltas)
    events,        \* brc20_events
    snap,          \* snap[h]: the ledger tables right before block h began
    \* ---- ingestion coordinator (QSpec) ----
    queue,         \* jobQueue's waiting jobs (jobQueue.size = Len(queue))
    running,       \* jobs PQueue has started and that have not ended
    accepted,      \* number of deliveries accepted so far
    done,          \* sequence numbers of the jobs that ended (either way)
    applied,       \* heights the Engine holds as applied (committed)
    tip,           \* the collaborator's tip: height of its last accepted offer
    ret,           \* what the last callback saw and returned
    failures       \* number of jobs that ended in an error

ledgerVars == <<height, inscriptions, locations, deploys, mints, transfers,
                balances, events, snap>>
queueVars == <<queue, running, accepted, done, applied, tip, ret, failures>>
vars == <<height, inscriptions, locations, deploys, mints, transfers,
          balances, events, snap,
          queue, running, accepted, done, applied, tip, ret, failures>>

-----------------------------------------------------------------------------
(* Bounds of the model *)

MaxHeight == 2
MaxInscriptions == 4
MaxLocations == 5
\* coordinator: deliveries accepted in all, rollbacks among them, failed jobs
MaxDeliveries == 13
MaxRollbacks == 1
MaxFailures == 1

-----------------------------------------------------------------------------
(* Values *)

NoAddr == "null"
Addrs == {"A", "B"}
\* Addresses inscriptions are revealed at, and addresses they move to
\* (NoAddr: the inscription is spent as a fee).
GenesisAddrs == {"A"}
MoveAddrs == Addrs \cup {NoAddr}
NullId == 0
DefaultDecimals == 18

\* LOWER(ticker) of SQL / toLowerCase() of JS, on the tickers of the model
Lower(t) == IF t = "ORDI" THEN "ordi" ELSE t

\* The payloads brc20FromInscription hands over. lim and dec are optional:
\* {} when absent, {x} when present.
DeployPayloads ==
    { [op |-> "deploy", tick |-> "ordi", max |-> 10, lim |-> {}, dec |-> {0}],
      [op |-> "deploy", tick |-> "ORDI", max |-> 20, lim |-> {10}, dec |-> {}] }
MintPayloads ==
    { [op |-> "mint", tick |-> "ordi", amt |-> [v |-> 10, f |-> 0]],
      [op |-> "mint", tick |-> "ordi", amt |-> [v |-> 20, f |-> 0]] }
TransferPayloads ==
    { [op |-> "transfer", tick |-> "ordi", amt |-> [v |-> 5, f |-> 1]],
      [op |-> "transfer", tick |-> "ordi", amt |-> [v |-> 10, f |-> 0]] }
Payloads == DeployPayloads \cup MintPayloads \cup TransferPayloads

\* new BigNumber(s) of a payload amount
BigNumber(s) == s.v
\* s.includes('.') && s.split('.')[1].length
FracLen(s) == s.f

Min(a, b) == IF a <= b THEN a ELSE b

RECURSIVE SumSeq(_)
SumSeq(s) == IF s = <<>> THEN 0 ELSE Head(s) + SumSeq(Tail(s))

Rows(s) == {s[i] : i \in DOMAIN s}

\* The five ledger tables as one value
DB == [deploys |-> deploys, mints |-> mints, transfers |-> transfers,
       balances |-> balances, events |-> events]

-----------------------------------------------------------------------------
(* Brc20PgStore *)

\* getDeploy: the rows with LOWER(ticker) = LOWER(arg); deploy[0] if any
getDeployRows(db, ticker) ==
    SelectSeq(db.deploys, LAMBDA d : Lower(d.ticker) = Lower(ticker))

\* getBalances for one address and one ticker: SUM(avail), SUM(trans) over
\* the delta rows of the address joined with the deploys of that ticker
getBalances(db, address, ticker) ==
    LET ids == {d.id : d \in Rows(getDeployRows(db, ticker))}
        rows == SelectSeq(db.balances,
                    LAMBDA b : b.address = address /\ b.brc20_deploy_id \in ids)
    IN  [count |-> Len(rows),
         avail_balance |-> SumSeq([i \in DOMAIN rows |-> rows[i].avail_balance]),
         trans_balance |-> SumSeq([i \in DOMAIN rows |-> rows[i].trans_balance])]

\* getTokenSupply of a deployed ticker. minted is the one row of the GROUP BY
\* brc20_deploy_id query over the token's balance rows; with no such row
\* minted[0] is undefined and reading minted[0].total throws. holders counts
\* the GROUP BY address groups (the null address is a group) with balance > 0.
getTokenSupply(db, ticker) ==
    LET deploy == getDeployRows(db, ticker)[1]
        rows == SelectSeq(db.balances, LAMBDA b : b.brc20_deploy_id = deploy.id)
        total(s) == SumSeq([i \in DOMAIN s |->
                                s[i].avail_balance + s[i].trans_balance])
        groups == {rows[i].address : i \in DOMAIN rows}
        balance(a) == total(SelectSeq(rows, LAMBDA b : b.address = a))
    IN  IF rows = <<>>
        THEN [threw |-> TRUE, max_supply |-> 0, minted_supply |-> 0, holders |-> 0]
        ELSE [threw |-> FALSE,
              max_supply |-> deploy.max,
              minted_supply |-> total(rows),
              holders |-> Cardinality({a \in groups : balance(a) > 0})]

\* faulty variant of tickerConflict: the unique index on ticker, not on LOWER(ticker)
tickerConflictExact(db, tick) ==
    \E d \in Rows(db.deploys) : d.ticker = tick

\* ON CONFLICT (LOWER(ticker)): a row with the same lowercased ticker exists
tickerConflict(db, tick) ==
    \E d \in Rows(db.deploys) : Lower(d.ticker) = Lower(tick)

insertDeploy(db, deploy, inscription_id, location) ==
    IF location.address = NoAddr THEN db
    ELSE
    LET row == [id |-> inscription_id,
                inscription_id |-> inscription_id,
                block_height |-> location.block_height,
                address |-> location.address,
                ticker |-> deploy.tick,
                max |-> deploy.max,
                limit |-> deploy.lim,
                decimals |-> IF deploy.dec = {} THEN DefaultDecimals
                             ELSE CHOOSE x \in deploy.dec : TRUE]
    IN  IF tickerConflict(db, deploy.tick) THEN db
        ELSE [db EXCEPT
                !.deploys = Append(@, row),
                !.events = Append(@, [inscription_id |-> inscription_id,
                                      brc20_deploy_id |-> row.id,
                                      deploy_id |-> row.id,
                                      mint_id |-> NullId,
                                      transfer_id |-> NullId])]

\* faulty variant of effectiveMint: the requested amount is credited unclamped
effectiveMintUnclamped(availSupply, amt) == amt

\* BigNumber.min(availSupply, args.mint.amt)
effectiveMint(availSupply, amt) == Min(availSupply, amt)

\* faulty variant of exceedsLimit: a mint of exactly the limit is refused too
exceedsLimitOrEqual(limit, amt) ==
    limit # {} /\ \E l \in limit : amt >= l

\* token.limit && BigNumber(args.mint.amt).isGreaterThan(token.limit)
exceedsLimit(limit, amt) ==
    limit # {} /\ \E l \in limit : amt > l

\* faulty variant of fullyMinted: a token with nothing left still takes a mint
fullyMintedStrict(availSupply) == availSupply < 0

\* availSupply.isLessThanOrEqualTo(0)
fullyMinted(availSupply) == availSupply <= 0

insertMint(db, mint, inscription_id, location) ==
    LET found == getDeployRows(db, mint.tick)
    IN  IF found = <<>> THEN db
        ELSE
        LET token == found[1]
            minted == SumSeq([i \in DOMAIN db.mints |->
                        IF db.mints[i].brc20_deploy_id = token.id
                        THEN db.mints[i].amount ELSE 0])
            availSupply == token.max - minted
            mintAmt == effectiveMint(availSupply, BigNumber(mint.amt))
        IN  IF exceedsLimit(token.limit, BigNumber(mint.amt))
            THEN db
            ELSE IF FracLen(mint.amt) > 0 /\ FracLen(mint.amt) > token.decimals
            THEN db
            ELSE IF fullyMinted(availSupply) THEN db
            ELSE [db EXCEPT
                    !.mints = Append(@, [inscription_id |-> inscription_id,
                                         brc20_deploy_id |-> token.id,
                                         block_height |-> location.block_height,
                                         address |-> location.address,
                                         amount |-> BigNumber(mint.amt)]),
                    !.balances = Append(@, [inscription_id |-> inscription_id,
                                            brc20_deploy_id |-> token.id,
                                            block_height |-> location.block_height,
                                            address |-> location.address,
                                            avail_balance |-> mintAmt,
                                            trans_balance |-> 0])]

\* faulty variant of insufficient: the available balance is not checked
insufficientNever(transAmt, available) == FALSE

\* faulty variant of insufficient: the whole available balance cannot be reserved
insufficientAtEqual(transAmt, available) == transAmt >= available

\* transAmt.gt(available)
insufficient(transAmt, available) == transAmt > available

insertTransfer(db, transfer, inscription_id, location) ==
    IF location.address = NoAddr THEN db
    ELSE
    LET found == getDeployRows(db, transfer.tick)
    IN  IF found = <<>> THEN db
        ELSE
        LET token == found[1]
            balanceResult == getBalances(db, location.address, transfer.tick)
            transAmt == BigNumber(transfer.amt)
            available == IF balanceResult.count = 0 THEN 0
                         ELSE balanceResult.avail_balance
        IN  IF insufficient(transAmt, available) THEN db
            ELSE [db EXCEPT
                    !.transfers = Append(@, [id |-> inscription_id,
                                             inscription_id |-> inscription_id,
                                             brc20_deploy_id |-> token.id,
                                             block_height |-> location.block_height,
                                             from_address |-> location.address,
                                             to_address |-> NoAddr,
                                             amount |-> transAmt]),
                    !.balances = Append(@, [inscription_id |-> inscription_id,
                                            brc20_deploy_id |-> token.id,
                                            block_height |-> location.block_height,
                                            address |-> location.address,
                                            avail_balance |-> 0 - transAmt,
                                            trans_balance |-> transAmt])]

insertOperationGenesis(db, inscription_id, brc20, location) ==
    IF location.address = NoAddr THEN db
    ELSE IF brc20.op = "deploy" THEN insertDeploy(db, brc20, inscription_id, location)
    ELSE IF brc20.op = "mint" THEN insertMint(db, brc20, inscription_id, location)
    ELSE insertTransfer(db, brc20, inscription_id, location)

\* faulty variant of applyBalanceTransfer: no credit row when the location has
\* no address, so the settled amount leaves the token's total
applyBalanceTransferBurning(db, transfer, location) ==
    [db EXCEPT
        !.balances = @ \o
            << [inscription_id |-> transfer.inscription_id,
                brc20_deploy_id |-> transfer.brc20_deploy_id,
                block_height |-> location.block_height,
                address |-> transfer.from_address,
                avail_balance |-> 0,
                trans_balance |-> 0 - transfer.amount] >> \o
            (IF location.address = NoAddr THEN <<>>
             ELSE << [inscription_id |-> transfer.inscription_id,
                      brc20_deploy_id |-> transfer.brc20_deploy_id,
                      block_height |-> location.block_height,
                      address |-> location.address,
                      avail_balance |-> transfer.amount,
                      trans_balance |-> 0] >>),
        !.transfers = [i \in DOMAIN @ |->
                         IF @[i].id = transfer.id
                         THEN [@[i] EXCEPT !.to_address = location.address]
                         ELSE @[i]]]

applyBalanceTransfer(db, transfer, location) ==
    [db EXCEPT
        !.balances = @ \o
            << [inscription_id |-> transfer.inscription_id,
                brc20_deploy_id |-> transfer.brc20_deploy_id,
                block_height |-> location.block_height,
                address |-> transfer.from_address,
                avail_balance |-> 0,
                trans_balance |-> 0 - transfer.amount],
               [inscription_id |-> transfer.inscription_id,
                brc20_deploy_id |-> transfer.brc20_deploy_id,
                block_height |-> location.block_height,
                address |-> location.address,
                avail_balance |-> transfer.amount,
                trans_balance |-> 0] >>,
        !.transfers = [i \in DOMAIN @ |->
                         IF @[i].id = transfer.id
                         THEN [@[i] EXCEPT !.to_address = location.address]
                         ELSE @[i]]]

\* The rows of locations JOIN brc20_transfers for one inscription, LIMIT 3.
\* locs is the locations table, the row of the current move included.
transferJoin(db, locs, inscription_id) ==
    LET ts == SelectSeq(db.transfers, LAMBDA t : t.inscription_id = inscription_id)
        ls == SelectSeq(locs, LAMBDA l : l.inscription_id = inscription_id)
    IN  [count |-> Min(3, Len(ls) * Len(ts)), rows |-> ts]

\* faulty variant of firstUse: every move after the genesis settles
firstUseAnyMove(count) == count >= 2

\* brc20Transfer.count === 2: genesis + this move
firstUse(count) == count = 2

insertOperationTransfer(db, locs, inscription_id, location) ==
    LET brc20Transfer == transferJoin(db, locs, inscription_id)
    IN  IF firstUse(brc20Transfer.count)
        THEN applyBalanceTransfer(db, brc20Transfer.rows[1], location)
        ELSE db

\* Rollback of block h: in every ledger table the rows of height h go. An
\* event row carries no height of its own: it goes with the row it refers to.
rollBackBlock(db, h) ==
    LET gone == {d.id : d \in {x \in Rows(db.deploys) : x.block_height = h}}
    IN  [deploys |-> SelectSeq(db.deploys, LAMBDA r : r.block_height # h),
         mints |-> SelectSeq(db.mints, LAMBDA r : r.block_height # h),
         transfers |-> SelectSeq(db.transfers, LAMBDA r : r.block_height # h),
         balances |-> SelectSeq(db.balances, LAMBDA r : r.block_height # h),
         events |-> SelectSeq(db.events, LAMBDA r : r.deploy_id \notin gone)]

-----------------------------------------------------------------------------
(* Ledger actions *)

SetDB(db) ==
    /\ deploys' = db.deploys
    /\ mints' = db.mints
    /\ transfers' = db.transfers
    /\ balances' = db.balances
    /\ events' = db.events

\* A block is opened on top of the tip (every block carries at least one
\* inscription event); its events follow one by one.
NewBlock ==
    /\ height < MaxHeight
    /\ height = 0 \/ \E l \in Rows(locations) : l.block_height = height
    /\ height' = height + 1
    /\ snap' = Append(snap, DB)
    /\ UNCHANGED <<inscriptions, locations, deploys, mints, transfers,
                   balances, events>>
    /\ UNCHANGED queueVars

\* An inscription is revealed: its row and its first location are written,
\* then insertOperationGenesis runs.
Genesis(brc20, address) ==
    /\ height > 0
    /\ Len(inscriptions) < MaxInscriptions
    /\ Len(locations) < MaxLocations
    /\ LET id == Len(inscriptions) + 1
           location == [inscription_id |-> id, block_height |-> height,
                        address |-> address]
       IN  /\ inscriptions' = Append(inscriptions, brc20)
           /\ locations' = Append(locations, location)
           /\ SetDB(insertOperationGenesis(DB, id, brc20, location))
    /\ UNCHANGED <<height, snap>>
    /\ UNCHANGED queueVars

\* An inscription moves: its new location is written, then
\* insertOperationTransfer runs. The inscriptions moved are those with a
\* recorded intent; for any other inscription the join below is empty and the
\* move only adds a location row.
Move(inscription_id, address) ==
    /\ height > 0
    /\ \E t \in Rows(transfers) : t.inscription_id = inscription_id
    /\ Len(locations) < MaxLocations
    /\ LET location == [inscription_id |-> inscription_id, block_height |-> height,
                        address |-> address]
       IN  /\ locations' = Append(locations, location)
           /\ SetDB(insertOperationTransfer(DB, locations', inscription_id, location))
    /\ UNCHANGED <<height, inscriptions, snap>>
    /\ UNCHANGED queueVars

\* The tip block is reverted.
Rollback ==
    /\ height > 0
    /\ SetDB(rollBackBlock(DB, height))
    /\ locations' = SelectSeq(locations, LAMBDA l : l.block_height # height)
    /\ inscriptions' = SubSeq(inscriptions, 1,
          Cardinality({l.inscription_id : l \in Rows(locations')}))
    /\ height' = height - 1
    /\ snap' = SubSeq(snap, 1, height - 1)
    /\ UNCHANGED queueVars

QueueInit ==
    /\ queue = <<>>
    /\ running = {}
    /\ accepted = 0
    /\ done = {}
    /\ applied = {}
    /\ tip = 0
    /\ ret = [called |-> FALSE, size |-> 0, result |-> FALSE, seq |-> 0]
    /\ failures = 0

LedgerInit ==
    /\ height = 0
    /\ inscriptions = <<>>
    /\ locations = <<>>
    /\ deploys = <<>>
    /\ mints = <<>>
    /\ transfers = <<>>
    /\ balances = <<>>
    /\ events = <<>>
    /\ snap = <<>>

Init == LedgerInit /\ QueueInit

Next ==
    \/ NewBlock
    \/ \E brc20 \in Payloads, address \in GenesisAddrs : Genesis(brc20, address)
    \/ \E id \in DOMAIN inscriptions, address \in MoveAddrs : Move(id, address)
    \/ Rollback

Spec == Init /\ [][Next]_vars

-----------------------------------------------------------------------------
(* Ingestion coordinator: buildOrdhookIndexer *)

\* faulty variant of Concurrency: two jobs at a time
ConcurrencyTwo == 1 + 1

\* new PQueue({ concurrency: 1, autoStart: true })
Concurrency == 1
\* faulty variant of QueueLimit: the threshold one higher
QueueLimitEleven == 10 + 1
\* if (jobQueue.size > 10)
QueueLimit == 10

\* jobQueue.size: the jobs waiting, the running one not counted
size(q) == Len(q)

\* faulty variant of dequeue: the job added last
dequeueLast(q) == q[Len(q)]

\* PQueue's dequeue: with equal priorities, the job added first
dequeue(q) == Head(q)

\* PQueue's _tryToStartAnother: start the next waiting job when fewer than
\* `concurrency` jobs are running. Yields the queue and the running set.
tryToStartAnother(q, run) ==
    IF q # <<>> /\ Cardinality(run) < Concurrency
    THEN [queue |-> SelectSeq(q, LAMBDA j : j # dequeue(q)),
          running |-> run \cup {dequeue(q)}]
    ELSE [queue |-> q, running |-> run]

\* jobQueue.add(job): enqueue, then try to start a job
add(q, run, job) == tryToStartAnother(Append(q, job), run)

\* faulty variant of full: reject at the limit already
fullAtLimit(q) == size(q) >= QueueLimit

\* the admission test of both callbacks
full(q) == size(q) > QueueLimit

\* One callback invocation (onBlock: kind "apply", onBlockRollBack: kind
\* "rollback") for the block of height h.
Deliver(kind, h) ==
    IF full(queue)
    THEN /\ ret' = [called |-> TRUE, size |-> size(queue), result |-> FALSE, seq |-> 0]
         /\ UNCHANGED <<queue, running, accepted, tip>>
    ELSE LET job == [seq |-> accepted + 1, kind |-> kind, height |-> h]
             r == add(queue, running, job)
         IN  /\ accepted < MaxDeliveries
             /\ queue' = r.queue
             /\ running' = r.running
             /\ accepted' = accepted + 1
             /\ tip' = IF kind = "apply" THEN h ELSE h - 1
             /\ ret' = [called |-> TRUE, size |-> size(queue), result |-> TRUE,
                        seq |-> job.seq]

\* The collaborator offers the block above its tip; an offer that was
\* rejected is offered again.
OnBlock ==
    /\ Deliver("apply", tip + 1)
    /\ UNCHANGED <<done, applied, failures>>
    /\ UNCHANGED ledgerVars

\* The collaborator reverts its tip block.
OnBlockRollBack ==
    /\ tip > 0
    /\ (accepted - tip) \div 2 < MaxRollbacks
    /\ Deliver("rollback", tip)
    /\ UNCHANGED <<done, applied, failures>>
    /\ UNCHANGED ledgerVars

\* What a job that commits leaves in the Engine: insertBlock adds the block,
\* rollBackBlock removes the rows of its height.
engine(app, job) ==
    IF job.kind = "apply" THEN app \cup {job.height} ELSE app \ {job.height}

\* faulty variant of next: the ended job leaves, no waiting job is started
nextIdle(q, run, job) == [queue |-> q, running |-> run \ {job}]

\* PQueue's _next after a job ended: one job less runs, the next one starts
next(q, run, job) == tryToStartAnother(q, run \ {job})

\* db.insertBlock / db.rollBackBlock resolves
JobDone(job) ==
    /\ job \in running
    /\ applied' = engine(applied, job)
    /\ done' = done \cup {job.seq}
    /\ LET r == next(queue, running, job)
       IN  queue' = r.queue /\ running' = r.running
    /\ UNCHANGED <<accepted, tip, ret, failures>>
    /\ UNCHANGED ledgerVars

\* db.insertBlock / db.rollBackBlock rejects: its transaction is rolled
\* back, the promise of add() rejects with nobody awaiting it (void), and
\* PQueue goes on with the next job in the same turn, before any
\* unhandled-rejection handling of the runtime.
JobFail(job) ==
    /\ job \in running
    /\ failures < MaxFailures
    /\ failures' = failures + 1
    /\ done' = done \cup {job.seq}
    /\ LET r == next(queue, running, job)
       IN  queue' = r.queue /\ running' = r.running
    /\ UNCHANGED <<accepted, tip, ret, applied>>
    /\ UNCHANGED ledgerVars

QNext ==
    \/ OnBlock
    \/ OnBlockRollBack
    \/ \E job \in running : JobDone(job)
    \/ \E job \in running : JobFail(job)

QSpec == Init /\ [][QNext]_vars

-----------------------------------------------------------------------------
(* Properties of the ledger (Spec) *)

LocsOf(id) == SelectSeq(locations, LAMBDA l : l.inscription_id = id)
BalRowsOf(id) == SelectSeq(balances, LAMBDA b : b.inscription_id = id)

\* What the mints of token id credited: the deltas written for its mint rows
EffectiveMinted(id) ==
    SumSeq([i \in DOMAIN balances |->
        IF \E m \in Rows(mints) : /\ m.inscription_id = balances[i].inscription_id
                                  /\ m.brc20_deploy_id = id
        THEN balances[i].avail_balance ELSE 0])

\* Current balance of an address in token id: the sums of its deltas
Avail(a, id) ==
    SumSeq([i \in DOMAIN balances |->
        IF balances[i].address = a /\ balances[i].brc20_deploy_id = id
        THEN balances[i].avail_balance ELSE 0])
Trans(a, id) ==
    SumSeq([i \in DOMAIN balances |->
        IF balances[i].address = a /\ balances[i].brc20_deploy_id = id
        THEN balances[i].trans_balance ELSE 0])

\* C1: for every deployed token, the amounts its recorded mints actually
\* credited sum to at most the token's max, whatever blocks were applied
\* and rolled back.
C1_MintedWithinMax ==
    \A d \in Rows(deploys) : EffectiveMinted(d.id) <= d.max

\* C1 witness: a token minted up to its max by a mint that was clamped
C1_Witness ==
    \E d \in Rows(deploys) :
        /\ EffectiveMinted(d.id) = d.max
        /\ \E m \in Rows(mints), b \in Rows(balances) :
              /\ m.brc20_deploy_id = d.id
              /\ b.inscription_id = m.inscription_id
              /\ b.avail_balance < m.amount

\* C2: for every address and token, the available balance and the
\* transferable balance (the sums of the deltas) are never negative.
C2_NonNegative ==
    \A a \in MoveAddrs, d \in Rows(deploys) :
        Avail(a, d.id) >= 0 /\ Trans(a, d.id) >= 0

\* C2 witness: an address reserved its whole balance and the intent was settled to
\* another address in a later block
C2_Witness ==
    \E t \in Rows(transfers) :
        /\ Len(LocsOf(t.inscription_id)) >= 2
        /\ LocsOf(t.inscription_id)[2].block_height > t.block_height
        /\ t.to_address \in Addrs \ {t.from_address}
        /\ Avail(t.from_address, t.brc20_deploy_id) = 0
        /\ Trans(t.from_address, t.brc20_deploy_id) = 0
        /\ Avail(t.to_address, t.brc20_deploy_id) = t.amount

ReserveRow(t) ==
    [inscription_id |-> t.inscription_id, brc20_deploy_id |-> t.brc20_deploy_id,
     block_height |-> t.block_height, address |-> t.from_address,
     avail_balance |-> 0 - t.amount, trans_balance |-> t.amount]
SenderRow(t, l) ==
    [inscription_id |-> t.inscription_id, brc20_deploy_id |-> t.brc20_deploy_id,
     block_height |-> l.block_height, address |-> t.from_address,
     avail_balance |-> 0, trans_balance |-> 0 - t.amount]
RecipientRow(t, l) ==
    [inscription_id |-> t.inscription_id, brc20_deploy_id |-> t.brc20_deploy_id,
     block_height |-> l.block_height, address |-> l.address,
     avail_balance |-> t.amount, trans_balance |-> 0]

\* C3: a transfer-intent is settled exactly once. Before its inscription
\* moves, the only delta of the inscription is the reserve; from the first
\* move on, the deltas are the reserve, then the sender's (0, -amt) and the
\* recipient's (+amt, 0) written at that first move, to_address is the
\* address of that first move, and no later move adds or changes anything.
\* A move of an inscription that has no recorded intent settles nothing.
C3_SettledExactlyOnce ==
    /\ \A t \in Rows(transfers) :
        LET ls == LocsOf(t.inscription_id)
        IN  IF Len(ls) = 1
            THEN BalRowsOf(t.inscription_id) = <<ReserveRow(t)>>
            ELSE /\ BalRowsOf(t.inscription_id) =
                      <<ReserveRow(t), SenderRow(t, ls[2]), RecipientRow(t, ls[2])>>
                 /\ t.to_address = ls[2].address
    /\ \A k \in DOMAIN inscriptions, a \in MoveAddrs :
        LET l == [inscription_id |-> k, block_height |-> height, address |-> a]
        IN  (\A t \in Rows(transfers) : t.inscription_id # k) =>
                insertOperationTransfer(DB, Append(locations, l), k, l) = DB

\* C3 witness: an intent whose inscription moved twice, first to an address
C3_Witness ==
    \E t \in Rows(transfers) :
        /\ Len(LocsOf(t.inscription_id)) = 3
        /\ LocsOf(t.inscription_id)[2].address \in Addrs
        /\ LocsOf(t.inscription_id)[3].address # LocsOf(t.inscription_id)[2].address

\* C4: rolling back the tip block returns every ledger table to what it was
\* right before that block was applied (the intents' to_address included).
C4_RollbackRestores ==
    height > 0 => rollBackBlock(DB, height) = snap[height]

DeployInscriptions(tick) ==
    {k \in DOMAIN inscriptions :
        /\ inscriptions[k].op = "deploy"
        /\ Lower(inscriptions[k].tick) = Lower(tick)}
First(S) == CHOOSE k \in S : \A j \in S : k <= j

\* C5: at most one token per lower(ticker); of the deploys inscribed with
\* the same lower(tick) exactly one has a row, the one applied first, and
\* the others have neither a deploy row nor an event.
C5_TickerUnique ==
    /\ \A i, j \in DOMAIN deploys :
          Lower(deploys[i].ticker) = Lower(deploys[j].ticker) => i = j
    /\ \A k \in DOMAIN inscriptions :
          inscriptions[k].op = "deploy" =>
            LET first == First(DeployInscriptions(inscriptions[k].tick))
                rows == {i \in DOMAIN deploys : deploys[i].inscription_id = k}
                evts == {i \in DOMAIN events : events[i].inscription_id = k}
            IN  /\ Cardinality(rows) = (IF k = first THEN 1 ELSE 0)
                /\ Cardinality(evts) = (IF k = first THEN 1 ELSE 0)
                /\ \A i \in rows : deploys[i].ticker = inscriptions[k].tick

\* C5 witness: two deploys whose tickers differ only in case were applied
C5_Witness ==
    \E i, j \in DOMAIN inscriptions :
        /\ i < j
        /\ inscriptions[i].op = "deploy" /\ inscriptions[j].op = "deploy"
        /\ inscriptions[i].tick # inscriptions[j].tick
        /\ Lower(inscriptions[i].tick) = Lower(inscriptions[j].tick)
        /\ Len(deploys) = 1

\* C6: every transfer-intent has exactly one transfer-reserve event in the
\* event log and at most one transfer-settle event.
C6_ReserveEventPerIntent ==
    \A t \in Rows(transfers) :
        LET n == Cardinality({i \in DOMAIN events : events[i].transfer_id = t.id})
        IN  n >= 1 /\ n <= 2

-----------------------------------------------------------------------------
(* Properties of the ingestion coordinator (QSpec) *)

Started == {j.seq : j \in running} \cup done

\* C7: a delivery is rejected exactly when more than 10 jobs wait at the
\* moment it is offered; a rejected delivery is not enqueued, an accepted
\* one is.
C7_Admission ==
    /\ ret.called =>
          /\ ret.result = FALSE <=> ret.size > 10
          /\ ret.result = FALSE => ret.seq = 0
          /\ ret.result = TRUE =>
                \/ ret.seq \in Started
                \/ \E i \in DOMAIN queue : queue[i].seq = ret.seq
    /\ accepted = Len(queue) + Cardinality(Started)

\* C7 witness: an offer met 11 waiting jobs and was rejected
C7_Witness ==
    ret.called /\ ret.result = FALSE /\ ret.size = 11 /\ Len(queue) = 11

\* C8: deliveries reach the Engine in the order they were accepted, applies
\* and rollbacks alike: when a job has started, every delivery accepted
\* before it has ended, and every waiting one was accepted after it.
C8_Fifo ==
    /\ \A s \in Started : \A k \in 1..(s - 1) : k \in done
    /\ \A i \in DOMAIN queue : \A s \in Started : queue[i].seq > s
    /\ \A i, j \in DOMAIN queue : i < j => queue[i].seq < queue[j].seq

\* C8 witness: a rollback runs after the applies accepted before it ended, while an
\* apply accepted after it waits
C8_Witness ==
    \E j \in running :
        /\ j.kind = "rollback"
        /\ j.seq >= 3
        /\ queue # <<>>
        /\ queue[1].kind = "apply"

\* C9: at most one block-application or rollback job runs at any time.
C9_OneAtATime ==
    Cardinality(running) <= 1

\* C9 witness: a job runs while others, offered meanwhile, wait
C9_Witness ==
    Cardinality(running) = 1 /\ Len(queue) >= 2 /\ done # {}

\* C10: the Engine never holds block H+1 applied without block H applied.
C10_ApplyInOrder ==
    \A h \in applied : h > 1 => (h - 1) \in applied

\* C11: once a job has failed the worker stops: no job runs any more,
\* neither one that waited behind the failed job nor one offered later.
C11_WorkerStopsOnFailure ==
    failures > 0 => running = {}

\* C18: at most 11 deliveries wait at any time, so at most 12 deliveries are
\* accepted and unfinished.
C18_QueueBound ==
    /\ Len(queue) <= 11
    /\ Len(queue) + Cardinality(running) <= 12

\* C18 witness: 11 deliveries wait behind the running one
C18_Witness ==
    Len(queue) = 11 /\ Cardinality(running) = 1

-----------------------------------------------------------------------------
(* Liveness of the coordinator *)

\* Every Engine job ends, by success or by error, and the worker (the event
\* loop that runs the job's continuation) is scheduled.
QFair ==
    /\ Init
    /\ [][QNext]_vars
    /\ WF_vars(\E job \in running : JobDone(job) \/ JobFail(job))

Waiting == {queue[i].seq : i \in DOMAIN queue}
Running == {j.seq : j \in running}

\* C20: every accepted delivery is eventually passed to the Engine, and
\* exactly once: the accepted deliveries are at any time split into those
\* waiting, the running one and the ended ones, a delivery that was not
\* accepted is in none of them, and each accepted delivery eventually
\* starts.
C20_AcceptedEventuallyRun ==
    /\ [](/\ Waiting \cup Running \cup done = 1..accepted
          /\ Waiting \cap Running = {}
          /\ Waiting \cap done = {}
          /\ Running \cap done = {}
          /\ Len(queue) = Cardinality(Waiting))
    /\ \A s \in 1..MaxDeliveries : (accepted >= s) ~> (s \in Started)

\* C20 witness: after an offer was turned away, every delivery accepted
\* before and after it has been run to its end, one of them by an error
C20_Witness ==
    /\ accepted >= 12
    /\ done = 1..accepted
    /\ failures = 1
    /\ ret.called /\ ret.seq = accepted

-----------------------------------------------------------------------------
(* Properties of mints and inscribe-transfers (Spec) *)

\* The token a mint or transfer inscription k met when it was revealed: the
\* deploy rows of its ticker that were inscribed before it
TokenAt(k) ==
    {d \in Rows(deploys) : /\ Lower(d.ticker) = Lower(inscriptions[k].tick)
                           /\ d.inscription_id < k}
MintRowsOf(k) == SelectSeq(mints, LAMBDA m : m.inscription_id = k)
EventsOf(k) == SelectSeq(events, LAMBDA e : e.inscription_id = k)
LimitOf(d) == CHOOSE l \in d.limit : TRUE

\* What the mints of token d inscribed before inscription k credited
EffectiveBefore(k, d) ==
    SumSeq([i \in DOMAIN balances |->
        IF /\ balances[i].inscription_id < k
           /\ \E m \in Rows(mints) : /\ m.inscription_id = balances[i].inscription_id
                                     /\ m.brc20_deploy_id = d.id
        THEN balances[i].avail_balance ELSE 0])

\* canonical number of digits after the point of an amount in tenths
FracDigits(v) == IF v % 10 = 0 THEN 0 ELSE 1

\* C12: a mint of more than the token's limit leaves no mint row, no balance
\* delta and no event, and applying one changes no table; a mint of exactly
\* the limit that passes the other rules is recorded.
C12_MintOverLimitRejected ==
    /\ \A k \in DOMAIN inscriptions :
          inscriptions[k].op = "mint" =>
            \A d \in TokenAt(k) :
                d.limit # {} =>
                    /\ BigNumber(inscriptions[k].amt) > LimitOf(d) =>
                          /\ MintRowsOf(k) = <<>>
                          /\ BalRowsOf(k) = <<>>
                          /\ EventsOf(k) = <<>>
                    /\ ( /\ BigNumber(inscriptions[k].amt) = LimitOf(d)
                         /\ FracLen(inscriptions[k].amt) <= d.decimals
                         /\ d.max - EffectiveBefore(k, d) > 0 ) =>
                          Len(MintRowsOf(k)) = 1
    /\ \A p \in MintPayloads, a \in Addrs, d \in Rows(deploys) :
          ( /\ Lower(d.ticker) = Lower(p.tick)
            /\ d.limit # {}
            /\ BigNumber(p.amt) > LimitOf(d) ) =>
              insertMint(DB, p, Len(inscriptions) + 1,
                         [inscription_id |-> Len(inscriptions) + 1,
                          block_height |-> height, address |-> a]) = DB

\* C12 witness: with a limit of 1, a mint of 2 was refused after a mint of 1
\* had been credited, and the minter still holds 1
C12_Witness ==
    \E j, k \in DOMAIN inscriptions, d \in Rows(deploys) :
        /\ j < k
        /\ d \in TokenAt(j)
        /\ d.limit # {}
        /\ inscriptions[j].op = "mint" /\ inscriptions[k].op = "mint"
        /\ BigNumber(inscriptions[j].amt) = LimitOf(d)
        /\ BigNumber(inscriptions[k].amt) > LimitOf(d)
        /\ Len(MintRowsOf(j)) = 1
        /\ MintRowsOf(k) = <<>>
        /\ Avail("A", d.id) = LimitOf(d)

\* C13: an accepted mint credits min(amt, remaining), remaining being the
\* token's max less what its earlier mints credited, and its row keeps the
\* requested amt; a mint that meets remaining <= 0 is refused. Also after a
\* clamped mint.
C13_EffectiveMint ==
    \A k \in DOMAIN inscriptions :
        inscriptions[k].op = "mint" =>
          \A d \in TokenAt(k) :
            LET amt == BigNumber(inscriptions[k].amt)
                remaining == d.max - EffectiveBefore(k, d)
                passes == /\ (d.limit = {} \/ amt <= LimitOf(d))
                          /\ FracLen(inscriptions[k].amt) <= d.decimals
                l == LocsOf(k)[1]
            IN  /\ (passes /\ remaining > 0) =>
                      /\ MintRowsOf(k) =
                            << [inscription_id |-> k, brc20_deploy_id |-> d.id,
                                block_height |-> l.block_height,
                                address |-> l.address, amount |-> amt] >>
                      /\ BalRowsOf(k) =
                            << [inscription_id |-> k, brc20_deploy_id |-> d.id,
                                block_height |-> l.block_height,
                                address |-> l.address,
                                avail_balance |-> Min(amt, remaining),
                                trans_balance |-> 0] >>
                /\ remaining <= 0 =>
                      MintRowsOf(k) = <<>> /\ BalRowsOf(k) = <<>>

\* C13 witness: a mint was clamped to what was left (its row keeps the
\* requested amount) and the mint that followed it was refused
C13_Witness ==
    \E j, k \in DOMAIN inscriptions, d \in Rows(deploys) :
        /\ j < k
        /\ d \in TokenAt(j)
        /\ inscriptions[j].op = "mint" /\ inscriptions[k].op = "mint"
        /\ Len(MintRowsOf(j)) = 1
        /\ MintRowsOf(j)[1].amount > BalRowsOf(j)[1].avail_balance
        /\ BalRowsOf(j)[1].avail_balance = d.max - EffectiveBefore(j, d)
        /\ MintRowsOf(k) = <<>>

\* C14: an inscribe-transfer of a deployed token with amt <= the inscriber's
\* available balance adds one intent with to_address null and one delta
\* (-amt, +amt) and nothing else; with amt > avail, or for a token that is
\* not deployed, it changes no table.
C14_InscribeTransfer ==
    /\ \A p \in TransferPayloads, a \in Addrs :
          LET k == Len(inscriptions) + 1
              l == [inscription_id |-> k, block_height |-> height, address |-> a]
              amt == BigNumber(p.amt)
              toks == {d \in Rows(deploys) : Lower(d.ticker) = Lower(p.tick)}
              r == insertTransfer(DB, p, k, l)
          IN  IF \E d \in toks : amt <= Avail(a, d.id)
              THEN \E d \in toks :
                    LET t == [id |-> k, inscription_id |-> k,
                              brc20_deploy_id |-> d.id,
                              block_height |-> height, from_address |-> a,
                              to_address |-> NoAddr, amount |-> amt]
                    IN  r = [DB EXCEPT !.transfers = Append(@, t),
                                       !.balances = Append(@, ReserveRow(t))]
              ELSE r = DB
    /\ \A k \in DOMAIN inscriptions :
          (inscriptions[k].op = "transfer" /\ TokenAt(k) = {}) =>
              /\ \A t \in Rows(transfers) : t.inscription_id # k
              /\ BalRowsOf(k) = <<>>

\* C14 witness: an intent of the inscriber's whole balance was recorded and is
\* not yet settled, and an earlier inscribe-transfer of the same token, made
\* before the mint, was refused
C14_Witness ==
    \E j, k \in DOMAIN inscriptions :
        /\ j < k
        /\ inscriptions[j].op = "transfer" /\ inscriptions[k].op = "transfer"
        /\ TokenAt(j) # {}
        /\ \A t \in Rows(transfers) : t.inscription_id # j
        /\ \E t \in Rows(transfers) :
              /\ t.inscription_id = k
              /\ t.to_address = NoAddr
              /\ BalRowsOf(k) = <<ReserveRow(t)>>
              /\ Avail(t.from_address, t.brc20_deploy_id) = 0
              /\ Trans(t.from_address, t.brc20_deploy_id) = t.amount

\* C15: every amount recorded for a token (mint amounts, transfer-intent
\* amounts, balance deltas) has at most as many fractional digits as the
\* token's decimals.
C15_PrecisionWithinDecimals ==
    \A d \in Rows(deploys) :
        /\ \A m \in Rows(mints) :
              m.brc20_deploy_id = d.id => FracDigits(m.amount) <= d.decimals
        /\ \A t \in Rows(transfers) :
              t.brc20_deploy_id = d.id => FracDigits(t.amount) <= d.decimals
        /\ \A b \in Rows(balances) :
              b.brc20_deploy_id = d.id =>
                  /\ FracDigits(b.avail_balance) <= d.decimals
                  /\ FracDigits(b.trans_balance) <= d.decimals

\* C16: for every deployed token, getTokenSupply returns the token's max, the
\* total its mints credited, and the number of addresses holding a positive
\* total balance of it.
C16_Supply ==
    \A d \in Rows(deploys) :
        getTokenSupply(DB, d.ticker) =
            [threw |-> FALSE,
             max_supply |-> d.max,
             minted_supply |-> EffectiveMinted(d.id),
             holders |-> Cardinality({a \in Addrs :
                             Avail(a, d.id) + Trans(a, d.id) > 0})]

\* C17: an intent whose inscription first moved to a location without an
\* address has exactly two deltas, the reserve and the sender's (0, -amt):
\* no credit row is written, and later moves add nothing.
C17_FeeSpentBurns ==
    \A t \in Rows(transfers) :
        LET ls == LocsOf(t.inscription_id)
        IN  (Len(ls) >= 2 /\ ls[2].address = NoAddr) =>
                BalRowsOf(t.inscription_id) = <<ReserveRow(t), SenderRow(t, ls[2])>>

\* The sum of (avail_balance + trans_balance) over all delta rows of token id
LedgerTotal(id) ==
    SumSeq([i \in DOMAIN balances |->
        IF balances[i].brc20_deploy_id = id
        THEN balances[i].avail_balance + balances[i].trans_balance ELSE 0])

\* C19: for every token, the sum over all its balance delta rows of
\* (avail + trans) equals what its mints credited, and so is at most the
\* token's max: reserves and settlements leave the total unchanged.
C19_Conservation ==
    \A d \in Rows(deploys) :
        /\ LedgerTotal(d.id) = EffectiveMinted(d.id)
        /\ LedgerTotal(d.id) <= d.max

\* C19 witness: a token with a positive minted total one of whose intents was
\* reserved and then settled by a move to a location without an address
C19_Witness ==
    \E t \in Rows(transfers) :
        LET ls == LocsOf(t.inscription_id)
        IN  /\ Len(ls) >= 2 /\ ls[2].address = NoAddr
            /\ Len(BalRowsOf(t.inscription_id)) = 3
            /\ EffectiveMinted(t.brc20_deploy_id) > 0
            /\ LedgerTotal(t.brc20_deploy_id) = EffectiveMinted(t.brc20_deploy_id)

====
